---- MODULE Spec2Model ----
(***************************************************************************)
(* Model of the DOCX -> flashcard converter                                *)
(* (src/src/components/DocxToJsonConverter.tsx).                           *)
(*                                                                         *)
(* A JavaScript string is a sequence of one-character strings.  Characters *)
(* outside ASCII are written by their code point name.  The cursor i and    *)
(* the scan indices j, k, a keep the source's 0-based values; line number   *)
(* n of the source array is lines[n + 1] here.                              *)
(***************************************************************************)
EXTENDS Integers, Sequences, FiniteSets, TLC

\* ------------------------------------------------------------------------
\* Characters
\* ------------------------------------------------------------------------
Nbsp == "<U+00A0>"
FullStop == "<U+FF0E>"
FullColon == "<U+FF1A>"
Jeong == "<U+C815>"
Dap == "<U+B2F5>"

\* The characters JavaScript's \s and String.prototype.trim treat as white
\* space, restricted to the ones the model's inputs can contain.
WhiteSpace == {" ", "\t", "\n", "\r", Nbsp}

Max(x, y) == IF x >= y THEN x ELSE y

RECURSIVE TrimStart(_)
TrimStart(s) ==
    IF s = <<>> THEN <<>>
    ELSE IF Head(s) \in WhiteSpace THEN TrimStart(Tail(s))
    ELSE s

RECURSIVE TrimEnd(_)
TrimEnd(s) ==
    IF s = <<>> THEN <<>>
    ELSE IF s[Len(s)] \in WhiteSpace THEN TrimEnd(SubSeq(s, 1, Len(s) - 1))
    ELSE s

Trim(s) == TrimEnd(TrimStart(s))

\* Array.prototype.join
RECURSIVE Join(_, _)
Join(parts, sep) ==
    IF parts = <<>> THEN <<>>
    ELSE IF Len(parts) = 1 THEN parts[1]
    ELSE parts[1] \o sep \o Join(Tail(parts), sep)

\* replace(/\u00A0/g, ' ')
ReplaceNbsp(s) == [n \in 1..Len(s) |-> IF s[n] = Nbsp THEN " " ELSE s[n]]

\* index (1-based) of the first non-white-space character at or after p,
\* Len(s) + 1 when there is none: the greedy \s* of the regular expressions
RECURSIVE SkipSpace(_, _)
SkipSpace(s, p) ==
    IF p > Len(s) THEN p
    ELSE IF s[p] \in WhiteSpace THEN SkipSpace(s, p + 1)
    ELSE p

\* ------------------------------------------------------------------------
\* Line classifier
\* ------------------------------------------------------------------------
MarkerLetter == {"A", "B", "C", "D"}
MarkerPunct == {".", ")", FullStop}

\* /^[A-D][\.\)．]\s*/.test(s)
isOptionLine(s) ==
    /\ Len(s) >= 2
    /\ s[1] \in MarkerLetter
    /\ s[2] \in MarkerPunct

isAnswerLine(s) ==
    /\ Len(s) >= 2
    /\ s[1] \in MarkerLetter
    /\ s[2] \in MarkerPunct

\* [A-D] under the i flag
LetterI == {"A", "B", "C", "D", "a", "b", "c", "d"}

\* "Answer" under the i flag, one set of characters per position
AnswerWord == << {"A", "a"}, {"N", "n"}, {"S", "s"}, {"W", "w"}, {"E", "e"}, {"R", "r"} >>

\* length of the keyword (?:정답|답|Answer) matched at position p of s, 0 if none
KeywordLen(s, p) ==
    IF p + 1 <= Len(s) /\ s[p] = Jeong /\ s[p + 1] = Dap THEN 2
    ELSE IF p <= Len(s) /\ s[p] = Dap THEN 1
    ELSE IF p + 5 <= Len(s) /\ \A n \in 1..6 : s[p + n - 1] \in AnswerWord[n] THEN 6
    ELSE 0

\* (?:\s*[,/]\s*[A-D])* matched greedily from position p (the position after
\* a letter): the position after the last letter taken
RECURSIVE LetterListEnd(_, _)
LetterListEnd(s, p) ==
    LET q == SkipSpace(s, p)
        r == SkipSpace(s, q + 1)
    IN  IF q <= Len(s) /\ s[q] \in {",", "/"} /\ r <= Len(s) /\ s[r] \in LetterI
        THEN LetterListEnd(s, r + 1)
        ELSE p

\* m[1].split(/[,/]/).map(v => v.trim()).filter(Boolean).join(', ') on a
\* matched letter list: the letters in order, joined by ", "
RECURSIVE LettersOf(_)
LettersOf(s) ==
    IF s = <<>> THEN <<>>
    ELSE IF Head(s) \in LetterI
         THEN IF \E n \in 2..Len(s) : s[n] \in LetterI
              THEN <<Head(s)>> \o <<",", " ">> \o LettersOf(Tail(s))
              ELSE <<Head(s)>>
    ELSE LettersOf(Tail(s))

\* null is modelled as the empty sequence (a match always has a letter)
extractInlineAnswer(s) ==
    LET t == Trim(s)
        kw == KeywordLen(t, 1)
        p1 == SkipSpace(t, kw + 1)
        p2 == IF p1 <= Len(t) /\ t[p1] \in {":", FullColon} THEN p1 + 1 ELSE p1
        p3 == SkipSpace(t, p2)
        e == LetterListEnd(t, p3 + 1)
    IN  IF kw > 0 /\ p3 <= Len(t) /\ t[p3] \in LetterI /\ e = Len(t) + 1
        THEN LettersOf(SubSeq(t, p3, Len(t)))
        ELSE <<>>

\* /^[-_=]{3,}$/.test(t)
IsSeparatorRun(t) ==
    /\ Len(t) >= 3
    /\ \A n \in 1..Len(t) : t[n] \in {"-", "_", "="}

isNoiseLine(s) ==
    LET t == Trim(s)
    IN  \/ t = <<>>
        \/ t \in { <<"I">>, <<"I", "I">>, <<"I", "I", "I">>, <<"I", "V">> }
        \/ IsSeparatorRun(t)

\* ------------------------------------------------------------------------
\* parseDocxContent
\* ------------------------------------------------------------------------
\* one element of rawText.replace(/\r/g, '').split('\n') after the map
PrepareLine(l) == TrimEnd(ReplaceNbsp(l))

\* t.split('\n'): the pieces between the line breaks, one more than there
\* are line breaks
RECURSIVE SplitLines(_)
SplitLines(t) ==
    IF \A n \in 1..Len(t) : t[n] # "\n" THEN <<t>>
    ELSE LET b == CHOOSE n \in 1..Len(t) : t[n] = "\n" /\ \A m \in 1..(n - 1) : t[m] # "\n"
         IN  <<SubSeq(t, 1, b - 1)>> \o SplitLines(SubSeq(t, b + 1, Len(t)))

\* rawText.replace(/\r/g, '').split('\n').map(...)
PreparedLines(rawText) ==
    LET raw == SplitLines(SelectSeq(rawText, LAMBDA c : c # "\r"))
    IN  [n \in 1..Len(raw) |-> PrepareLine(raw[n])]

\* lines[n] of the source, n counted from 0
At(ls, n) == ls[n + 1]

\* while (k < lines.length && isNoiseLine(lines[k])) k++;
RECURSIVE SkipNoise(_, _)
SkipNoise(ls, k) ==
    IF k < Len(ls) /\ isNoiseLine(At(ls, k)) THEN SkipNoise(ls, k + 1)
    ELSE k

\* the question loop: collects plain lines until an option line is next
RECURSIVE QuestionScan(_, _, _)
QuestionScan(ls, j, q) ==
    IF j >= Len(ls) THEN [j |-> j, qLines |-> q]
    ELSE LET cur == Trim(At(ls, j))
             k == SkipNoise(ls, j + 1)
         IN  IF isNoiseLine(cur) THEN QuestionScan(ls, j + 1, q)
             ELSE IF isOptionLine(cur) THEN [j |-> j, qLines |-> q]
             ELSE IF k < Len(ls) /\ isOptionLine(Trim(At(ls, k)))
                  THEN [j |-> k, qLines |-> Append(q, cur)]
                  ELSE QuestionScan(ls, j + 1, Append(q, cur))

\* a continuation glued on without the space
ContinueOptionNoSpace(opt, nxt) == opt \o nxt

\* opt += ' ' + nxt
ContinueOption(opt, nxt) == opt \o <<" ">> \o nxt

\* an option that takes no line after its own
OptionContinuationNone(ls, k, opt) == [k |-> k, opt |-> opt]

\* the inner loop of the option scan: lines appended to the option opt until
\* the next option line or end of input
RECURSIVE OptionContinuation(_, _, _)
OptionContinuation(ls, k, opt) ==
    IF k >= Len(ls) THEN [k |-> k, opt |-> opt]
    ELSE LET nxt == Trim(At(ls, k))
         IN  IF isNoiseLine(nxt) THEN OptionContinuation(ls, k + 1, opt)
             ELSE IF isOptionLine(nxt) THEN [k |-> k, opt |-> opt]
             ELSE OptionContinuation(ls, k + 1, ContinueOption(opt, nxt))

\* the cap the source's comment says it could be raised to
MaxOptionsFive == 4 + 1

\* if (options.length >= 4) break;
MaxOptions == 4

\* the option loop; c is one run of the inner loop, bound to its value
RECURSIVE OptionScan(_, _, _)
OptionScan(ls, j, opts) ==
    IF j >= Len(ls) THEN [j |-> j, options |-> opts]
    ELSE LET cur == Trim(At(ls, j))
         IN  IF isNoiseLine(cur) THEN OptionScan(ls, j + 1, opts)
             ELSE IF ~isOptionLine(cur) THEN [j |-> j, options |-> opts]
             ELSE CHOOSE res \in
                      { IF Len(opts) + 1 >= MaxOptions
                        THEN [j |-> c.k, options |-> Append(opts, c.opt)]
                        ELSE OptionScan(ls, c.k, Append(opts, c.opt)) :
                        c \in {OptionContinuation(ls, j + 1, cur)} } : TRUE

\* step (b) looking at the very next line, noise or not
NextQuestionNoSkip(ls, a) ==
    LET cur == Trim(At(ls, a))
        k == a + 1
    IN  /\ ~isAnswerLine(cur)
        /\ ~isOptionLine(cur)
        /\ k < Len(ls)
        /\ isOptionLine(Trim(At(ls, k)))

\* the answer loop without step (b): the line is consumed
NextQuestionConsumed(ls, a) == FALSE

\* step (b) of the answer loop: cur is the question line of the next record
NextQuestionStarts(ls, a) ==
    LET cur == Trim(At(ls, a))
        k == SkipNoise(ls, a + 1)
    IN  /\ ~isAnswerLine(cur)
        /\ ~isOptionLine(cur)
        /\ k < Len(ls)
        /\ isOptionLine(Trim(At(ls, k)))

\* the line appended to every entry
AppendToEach(ans, cur) == [n \in 1..Len(ans) |-> ans[n] \o <<" ">> \o cur]

\* answers[answers.length - 1] += ' ' + cur
AppendToLast(ans, cur) ==
    [ans EXCEPT ![Len(ans)] = ans[Len(ans)] \o <<" ">> \o cur]

\* a break at the inline answer without the a++
InlineStopNoStep(a) == a

\* answers.push(inline); a++; break;  the index the loop is left with
InlineStop(a) == a + 1

\* the line taken as a continuation of the entry before it
PushAsContinuation(ans, cur) == IF ans = <<>> THEN <<cur>> ELSE AppendToLast(ans, cur)

\* answers.push(cur)
PushAnswer(ans, cur) == Append(ans, cur)

\* the answer loop
RECURSIVE AnswerScan(_, _, _)
AnswerScan(ls, a, ans) ==
    IF a >= Len(ls) THEN [a |-> a, answers |-> ans]
    ELSE LET cur == Trim(At(ls, a))
             inline == extractInlineAnswer(cur)
         IN  IF isNoiseLine(cur) THEN AnswerScan(ls, a + 1, ans)
             ELSE IF inline # <<>> THEN [a |-> InlineStop(a), answers |-> Append(ans, inline)]
             ELSE IF NextQuestionStarts(ls, a) THEN [a |-> a, answers |-> ans]
             ELSE IF isAnswerLine(cur) THEN AnswerScan(ls, a + 1, PushAnswer(ans, cur))
             ELSE IF Len(ans) > 0 THEN AnswerScan(ls, a + 1, AppendToLast(ans, cur))
             ELSE AnswerScan(ls, a + 1, ans)

Unknown == <<"U", "N", "K", "N", "O", "W", "N">>

\* the answer without the sentinel default
CardAnswerNoDefault(ans) == Trim(Join(ans, <<"\n">>))

\* answer || 'UNKNOWN' with answer = answers.join('\n').trim()
CardAnswer(ans) ==
    LET answer == Trim(Join(ans, <<"\n">>))
    IN  IF answer = <<>> THEN Unknown ELSE answer

\* qLines.join(' ').trim()
QuestionText(q) == Trim(Join(q, <<" ">>))

\* the object pushed at the end of a cycle
MakeCard(question, opts, ans) ==
    [question |-> question, options |-> opts, answer |-> CardAnswer(ans),
     explanation |-> "null"]

\* the slip of copying the other branches: i = j + 1
NoBoundaryCursorPast(s, j) == j + 1

\* a restart one line past the start of the candidate: i = i + 1
NoBoundaryCursorOneLine(s, j) == s + 1

\* i = Math.max(i + 1, j)
NoBoundaryCursor(s, j) == Max(s + 1, j)

\* the slip of restarting at the boundary line itself: i = j
EmptyQuestionCursorNoStep(j) == j

\* i = j + 1 when the question is empty
EmptyQuestionCursor(j) == j + 1

\* a restart at the line the option loop stopped at: i = j
FewOptionsCursorAtStop(j) == j

\* i = j + 1 when fewer than two options were collected
FewOptionsCursor(j) == j + 1

\* if (options.length < 2)
MinOptions == 2

\* ------------------------------------------------------------------------
\* normalizeMcqText
\* ------------------------------------------------------------------------
\* raw.replace(/\r/g, '')
RECURSIVE StripCr(_)
StripCr(t) ==
    IF t = <<>> THEN <<>>
    ELSE IF Head(t) = "\r" THEN StripCr(Tail(t))
    ELSE <<Head(t)>> \o StripCr(Tail(t))

\* /([^\n])\s*([A-D][\.\)．]\s*)/ tried at position p: the position of the
\* marker letter when it matches with $1 = t[p], 0 when it does not
MarkerAt(t, p) ==
    LET q == SkipSpace(t, p + 1)
    IN  IF /\ t[p] # "\n"
           /\ q + 1 <= Len(t)
           /\ t[q] \in MarkerLetter
           /\ t[q + 1] \in MarkerPunct
        THEN q
        ELSE 0

\* a replacement that keeps the white space in front of the marker
BreakKeepingSpace(t, p, q, e) == SubSeq(t, p, q - 1) \o <<"\n">> \o SubSeq(t, q, e - 1)

\* '$1\n$2' for a match with $1 at p and $2 from q to e - 1
BreakBefore(t, p, q, e) == <<t[p], "\n">> \o SubSeq(t, q, e - 1)

\* step 1: t.replace(/([^\n])\s*([A-D][\.\)．]\s*)/g, '$1\n$2') from position p
RECURSIVE BreakMarkers(_, _)
BreakMarkers(t, p) ==
    IF p > Len(t) THEN <<>>
    ELSE LET q == MarkerAt(t, p)
             e == SkipSpace(t, q + 2)
         IN  IF q = 0 THEN <<t[p]>> \o BreakMarkers(t, p + 1)
             ELSE BreakBefore(t, p, q, e) \o BreakMarkers(t, e)

\* the end of the run of line breaks that starts at p
RECURSIVE NewlineRunEnd(_, _)
NewlineRunEnd(t, p) ==
    IF p <= Len(t) /\ t[p] = "\n" THEN NewlineRunEnd(t, p + 1)
    ELSE p

\* a run replaced by one line break
CollapsedRunOne == <<"\n">>

\* the replacement '\n\n' of step 2
CollapsedRun == <<"\n", "\n">>

\* step 2: t.replace(/\n{3,}/g, '\n\n') from position p
RECURSIVE CollapseNewlines(_, _)
CollapseNewlines(t, p) ==
    IF p > Len(t) THEN <<>>
    ELSE LET e == NewlineRunEnd(t, p)
         IN  IF e = p THEN <<t[p]>> \o CollapseNewlines(t, p + 1)
             ELSE IF e - p >= 3 THEN CollapsedRun \o CollapseNewlines(t, e)
             ELSE SubSeq(t, p, e - 1) \o CollapseNewlines(t, e)

\* /([^\n])\s*((?:정답|답|Answer)\s*[:：]\s*[A-D](?:\s*[,/]\s*[A-D])*)/i tried
\* at position p: where $2 starts and where the match ends, start = 0 when
\* it does not match
InlineAt(t, p) ==
    LET q == SkipSpace(t, p + 1)
        kw == KeywordLen(t, q)
        c == SkipSpace(t, q + kw)
        l == SkipSpace(t, c + 1)
    IN  IF /\ t[p] # "\n"
           /\ kw > 0
           /\ c <= Len(t)
           /\ t[c] \in {":", FullColon}
           /\ l <= Len(t)
           /\ t[l] \in LetterI
        THEN [start |-> q, end |-> LetterListEnd(t, l + 1)]
        ELSE [start |-> 0, end |-> 0]

\* step 3: the inline answer replace, from position p
RECURSIVE BreakInlineAnswers(_, _)
BreakInlineAnswers(t, p) ==
    IF p > Len(t) THEN <<>>
    ELSE LET m == InlineAt(t, p)
         IN  IF m.start = 0 THEN <<t[p]>> \o BreakInlineAnswers(t, p + 1)
             ELSE BreakBefore(t, p, m.start, m.end) \o BreakInlineAnswers(t, m.end)

normalizeMcqText(raw) ==
    BreakInlineAnswers(
        CollapseNewlines(
            BreakMarkers(ReplaceNbsp(StripCr(raw)), 1), 1), 1)

\* ------------------------------------------------------------------------
\* Inputs
\* ------------------------------------------------------------------------
\* longest input, in lines
MaxLines == 6

\* the lines rawText.split('\n') can hold, before the map of PrepareLine
RawLineSet ==
    { <<>>,
      <<"Q", "1">>,
      <<"Q", "2", " ">>,
      <<"A", ".", " ", "x">>,
      <<"B", ".", Nbsp, "y">>,
      <<Dap, ":", " ", "B">> }

\* longest input of the runs checked for termination
MaxLiveLines == 4

\* split never returns an empty array
LineSeqs(maxLen) == UNION { [1..n -> RawLineSet] : n \in 1..maxLen }

\* ------------------------------------------------------------------------
\* State
\* ------------------------------------------------------------------------
VARIABLES
    lines,      \* parseDocxContent: const lines
    i,          \* let i: the cursor
    cards,      \* const cards
    pc,         \* "loop" at the head of the while loop, "done" after return
    qLines,     \* the locals of the latest cycle, <<>> where it set none
    options,
    answers,
    cycles,     \* cycles of the outer loop run so far
    text,       \* handleFileUpload: const text, the extracted raw text
    normalized, \* const normalized = normalizeMcqText(text)
    again,      \* normalizeMcqText applied to normalized
    stage,      \* "text", "normalized", "again": what has been computed
    converter,  \* DocxToJsonConverter: jsonData, isProcessing, error, and
                \* where handleFileUpload is at
    viewer      \* FlashcardApp: its state hooks, cancelled, where load is at,
                \* and load's res and data

parseVars == <<lines, i, cards, pc, qLines, options, answers, cycles>>

normVars == <<text, normalized, again, stage>>

appVars == <<converter, viewer>>

vars == <<lines, i, cards, pc, qLines, options, answers, cycles,
          text, normalized, again, stage, converter, viewer>>

\* null, and a value that is not null
Null == <<>>

Some(v) == <<v>>

\* useState(null), useState(false), useState(null)
ConverterMounted ==
    [jsonData |-> Null, isProcessing |-> FALSE, error |-> Null, at |-> "idle"]

\* the state hooks of FlashcardApp at mount, in the file named by variant
ViewerMounted(variant) ==
    [variant |-> variant, cards |-> <<>>, currentIndex |-> 0, isFlipped |-> FALSE,
     showExplanation |-> FALSE, isLoading |-> TRUE, loadError |-> Null,
     cancelled |-> FALSE, at |-> "mounted",
     res |-> "none", data |-> [kind |-> "none"],
     touchStart |-> Null, touchEnd |-> Null]

\* the state at the head of the while loop, for an input among raws
InitWith(raws) ==
    /\ \E raw \in raws :
           lines = [n \in 1..Len(raw) |-> PrepareLine(raw[n])]
    /\ i = 0
    /\ cards = <<>>
    /\ pc = "loop"
    /\ qLines = <<>>
    /\ options = <<>>
    /\ answers = <<>>
    /\ cycles = 0
    /\ text = <<>>
    /\ normalized = <<>>
    /\ again = <<>>
    /\ stage = "parse"
    /\ converter = ConverterMounted
    /\ viewer = ViewerMounted("App")

\* the same for an input of at most maxLen lines
InitOf(maxLen) == InitWith(LineSeqs(maxLen))

Init == InitOf(MaxLines)

LiveInit == InitOf(MaxLiveLines)

InCycle == pc = "loop" /\ i < Len(lines)

\* the cycle counter stops one past the longest input
CountCycle(c) == IF c > MaxLines THEN c ELSE c + 1

\* !(j >= lines.length || !isOptionLine(lines[j].trim()))
HasBoundary(ls, j) == j < Len(ls) /\ isOptionLine(Trim(At(ls, j)))

\* The values a cycle computes are bound once each, as the source's locals
\* are: s is i after the noise skip, q the question scan, o the option scan,
\* r the answer scan.

\* while (i < lines.length && isNoiseLine(lines[i])) i++;
\* if (i >= lines.length) break;   and then   return cards
NoiseToEnd ==
    /\ InCycle
    /\ \E s \in {SkipNoise(lines, i)} :
           /\ s >= Len(lines)
           /\ i' = s
    /\ pc' = "done"
    /\ qLines' = <<>>
    /\ options' = <<>>
    /\ answers' = <<>>
    /\ cycles' = CountCycle(cycles)
    /\ UNCHANGED <<lines, cards>>
    /\ UNCHANGED <<normVars, appVars>>

\* if (j >= lines.length || !isOptionLine(lines[j].trim())) { ...; continue; }
NoOptionBoundary ==
    /\ InCycle
    /\ \E s \in {SkipNoise(lines, i)} :
           /\ s < Len(lines)
           /\ \E q \in {QuestionScan(lines, s, <<>>)} :
                  /\ ~HasBoundary(lines, q.j)
                  /\ i' = NoBoundaryCursor(s, q.j)
                  /\ qLines' = q.qLines
    /\ options' = <<>>
    /\ answers' = <<>>
    /\ cycles' = CountCycle(cycles)
    /\ UNCHANGED <<lines, cards, pc>>
    /\ UNCHANGED <<normVars, appVars>>

\* if (!question) { i = j + 1; continue; }
EmptyQuestion ==
    /\ InCycle
    /\ \E s \in {SkipNoise(lines, i)} :
           /\ s < Len(lines)
           /\ \E q \in {QuestionScan(lines, s, <<>>)} :
                  /\ HasBoundary(lines, q.j)
                  /\ QuestionText(q.qLines) = <<>>
                  /\ i' = EmptyQuestionCursor(q.j)
                  /\ qLines' = q.qLines
    /\ options' = <<>>
    /\ answers' = <<>>
    /\ cycles' = CountCycle(cycles)
    /\ UNCHANGED <<lines, cards, pc>>
    /\ UNCHANGED <<normVars, appVars>>

\* if (options.length < 2) { i = j + 1; continue; }
FewOptions ==
    /\ InCycle
    /\ \E s \in {SkipNoise(lines, i)} :
           /\ s < Len(lines)
           /\ \E q \in {QuestionScan(lines, s, <<>>)} :
                  /\ HasBoundary(lines, q.j)
                  /\ QuestionText(q.qLines) # <<>>
                  /\ \E o \in {OptionScan(lines, q.j, <<>>)} :
                         /\ Len(o.options) < MinOptions
                         /\ i' = FewOptionsCursor(o.j)
                         /\ qLines' = q.qLines
                         /\ options' = o.options
    /\ answers' = <<>>
    /\ cycles' = CountCycle(cycles)
    /\ UNCHANGED <<lines, cards, pc>>
    /\ UNCHANGED <<normVars, appVars>>

\* cards.push({...}); i = a;
EmitCard ==
    /\ InCycle
    /\ \E s \in {SkipNoise(lines, i)} :
           /\ s < Len(lines)
           /\ \E q \in {QuestionScan(lines, s, <<>>)} :
                  /\ HasBoundary(lines, q.j)
                  /\ QuestionText(q.qLines) # <<>>
                  /\ \E o \in {OptionScan(lines, q.j, <<>>)} :
                         /\ Len(o.options) >= MinOptions
                         /\ \E r \in {AnswerScan(lines, SkipNoise(lines, o.j), <<>>)} :
                                /\ cards' = Append(cards, MakeCard(QuestionText(q.qLines),
                                                                   o.options, r.answers))
                                /\ i' = r.a
                                /\ qLines' = q.qLines
                                /\ options' = o.options
                                /\ answers' = r.answers
    /\ cycles' = CountCycle(cycles)
    /\ UNCHANGED <<lines, pc>>
    /\ UNCHANGED <<normVars, appVars>>

\* the loop condition fails: return cards
Return ==
    /\ pc = "loop"
    /\ i >= Len(lines)
    /\ pc' = "done"
    /\ UNCHANGED <<lines, i, cards, qLines, options, answers, cycles>>
    /\ UNCHANGED <<normVars, appVars>>

Next ==
    \/ NoiseToEnd
    \/ NoOptionBoundary
    \/ EmptyQuestion
    \/ FewOptions
    \/ EmitCard
    \/ Return

Spec == Init /\ [][Next]_vars

\* the loop is synchronous code: it runs until it returns
FairSpec == LiveInit /\ [][Next]_vars /\ WF_vars(Next)

\* ------------------------------------------------------------------------
\* Inputs that reach the answer loop with lines left: a question line and
\* an option line as many times as the option loop takes, then any lines
\* ------------------------------------------------------------------------
\* most lines after the options
MaxTail == 4

QuestionRawLines ==
    { l \in RawLineSet :
          /\ ~isNoiseLine(PrepareLine(l))
          /\ ~isOptionLine(Trim(PrepareLine(l)))
          /\ extractInlineAnswer(PrepareLine(l)) = <<>> }

OptionRawLines == { l \in RawLineSet : isOptionLine(Trim(PrepareLine(l))) }

FullRecords ==
    { <<q>> \o [n \in 1..MaxOptions |-> o] : q \in QuestionRawLines, o \in OptionRawLines }

AnswerInputs == { h \o t : h \in FullRecords, t \in {<<>>} \cup LineSeqs(MaxTail) }

AnswerInit == InitWith(AnswerInputs)

AnswerSpec == AnswerInit /\ [][Next]_vars

\* ------------------------------------------------------------------------
\* Inputs whose lines begin like an option marker: the letter and the
\* punctuation with and without white space and text after them
\* ------------------------------------------------------------------------
\* longest input of the runs over marker lines, in lines
MaxMarkerLines == 4

MarkerLineSet ==
    { <<>>,
      <<"Q", "1">>,
      <<"A", ".", " ", "x">>,
      <<"A", ".", "x">>,
      <<"B", ")">>,
      <<"E", ".", " ", "x">> }

MarkerInputs == UNION { [1..n -> MarkerLineSet] : n \in 1..MaxMarkerLines }

MarkerInit == InitWith(MarkerInputs)

MarkerSpec == MarkerInit /\ [][Next]_vars

\* ------------------------------------------------------------------------
\* Inputs with noise lines of each kind put between the lines of a record
\* ------------------------------------------------------------------------
\* most lines after the record of an input, and most noise lines put in
MaxNoiseTail == 2

MaxNoise == 2

\* a blank line, a bare Roman numeral, a separator run
NoiseRawLines == { <<>>, <<"I", "I">>, <<"-", "-", "-">> }

TextRawLines ==
    { <<"Q", "1">>,
      <<"A", ".", " ", "x">>,
      <<Dap, ":", " ", "B">> }

NoiseTails == UNION { [1..n -> TextRawLines] : n \in 0..MaxNoiseTail }

\* inputs without noise: up to MaxNoiseTail lines, alone or after a question
\* with its four options and an answer line
NoiseFree ==
    (NoiseTails \ {<<>>}) \cup
    { <<<<"Q", "1">>>> \o [n \in 1..(MaxOptions + 1) |-> <<"A", ".", " ", "x">>] \o t :
      t \in NoiseTails }

\* the input raw with the line l put in after its first p lines
InsertLine(raw, p, l) == SubSeq(raw, 1, p) \o <<l>> \o SubSeq(raw, p + 1, Len(raw))

\* where up to MaxNoise lines are put into an input of len lines: after how
\* many of its lines each one goes, from the first to the last
NoisePlaces(len) ==
    { f \in UNION { [1..n -> 0..len] : n \in 0..MaxNoise } :
        \A n \in 1..(Len(f) - 1) : f[n] <= f[n + 1] }

\* the input raw with the line l put in at each place of f
RECURSIVE InsertLines(_, _, _)
InsertLines(raw, f, l) ==
    IF f = <<>> THEN raw
    ELSE InsertLines(InsertLine(raw, f[Len(f)], l), SubSeq(f, 1, Len(f) - 1), l)

\* an input without noise with up to MaxNoise noise lines of one kind put in
NoiseInit ==
    \E raw \in NoiseFree : \E l \in NoiseRawLines : \E f \in NoisePlaces(Len(raw)) :
        InitWith({InsertLines(raw, f, l)})

NoiseSpec == NoiseInit /\ [][Next]_vars

\* ------------------------------------------------------------------------
\* normalizeMcqText on its own: applied to a text, then to its own output
\* ------------------------------------------------------------------------
\* longest raw text, in characters
MaxText == 5

\* one character of each kind the three replaces tell apart
TextAlphabet == {"x", "A", ".", " ", "\n", Dap, ":", ","}

Texts == UNION { [1..n -> TextAlphabet] : n \in 0..MaxText }

NormInit ==
    /\ text \in Texts
    /\ normalized = <<>>
    /\ again = <<>>
    /\ stage = "text"
    /\ lines = <<>>
    /\ i = 0
    /\ cards = <<>>
    /\ pc = "idle"
    /\ qLines = <<>>
    /\ options = <<>>
    /\ answers = <<>>
    /\ cycles = 0
    /\ converter = ConverterMounted
    /\ viewer = ViewerMounted("App")

\* const normalized = normalizeMcqText(text);
Normalize ==
    /\ stage = "text"
    /\ normalized' = normalizeMcqText(text)
    /\ stage' = "normalized"
    /\ UNCHANGED <<text, again>>
    /\ UNCHANGED <<parseVars, appVars>>

\* normalizeMcqText called on its own output
NormalizeAgain ==
    /\ stage = "normalized"
    /\ again' = normalizeMcqText(normalized)
    /\ stage' = "again"
    /\ UNCHANGED <<text, normalized>>
    /\ UNCHANGED <<parseVars, appVars>>

NormNext ==
    \/ Normalize
    \/ NormalizeAgain

NormSpec == NormInit /\ [][NormNext]_vars

\* texts with option markers close to one another
\* longest such text, in characters
MaxMarkerText == 6

MarkerAlphabet == {"x", "A", ".", " ", "\n"}

MarkerTexts == UNION { [1..n -> MarkerAlphabet] : n \in 0..MaxMarkerText }

MarkerTextInit ==
    /\ text \in MarkerTexts
    /\ normalized = <<>>
    /\ again = <<>>
    /\ stage = "text"
    /\ lines = <<>>
    /\ i = 0
    /\ cards = <<>>
    /\ pc = "idle"
    /\ qLines = <<>>
    /\ options = <<>>
    /\ answers = <<>>
    /\ cycles = 0
    /\ converter = ConverterMounted
    /\ viewer = ViewerMounted("App")

MarkerTextSpec == MarkerTextInit /\ [][NormNext]_vars

\* ------------------------------------------------------------------------
\* handleFileUpload
\* ------------------------------------------------------------------------
\* the outer loop of parseDocxContent from cursor k with the cards cs: the
\* cursor it ends with and the cards it returns
RECURSIVE ParseFrom(_, _, _)
ParseFrom(ls, k, cs) ==
    IF k >= Len(ls) THEN [i |-> k, cards |-> cs]
    ELSE LET s == SkipNoise(ls, k)
             q == QuestionScan(ls, s, <<>>)
             o == OptionScan(ls, q.j, <<>>)
             r == AnswerScan(ls, SkipNoise(ls, o.j), <<>>)
         IN  IF s >= Len(ls) THEN [i |-> s, cards |-> cs]
             ELSE IF ~HasBoundary(ls, q.j) THEN ParseFrom(ls, NoBoundaryCursor(s, q.j), cs)
             ELSE IF QuestionText(q.qLines) = <<>>
                  THEN ParseFrom(ls, EmptyQuestionCursor(q.j), cs)
             ELSE IF Len(o.options) < MinOptions
                  THEN ParseFrom(ls, FewOptionsCursor(o.j), cs)
             ELSE ParseFrom(ls, r.a,
                            Append(cs, MakeCard(QuestionText(q.qLines), o.options, r.answers)))

\* most lines of an uploaded document
MaxUploadLines == 3

\* what stands between the lines of the extracted text
LineSeparators == { <<"\n">>, <<"\r", "\n">>, <<" ">> }

\* the lines of an uploaded document: an empty line, a line of text, an
\* option line, an inline answer
UploadLineSet == RawLineSet \ { <<"Q", "2", " ">>, <<"A", ".", " ", "x">> }

\* result.value of mammoth.extractRawText
UploadTexts ==
    { Join(ls, sep) :
          ls \in UNION { [1..n -> UploadLineSet] : n \in 1..MaxUploadLines },
          sep \in LineSeparators }

\* the two messages handed to setError
NoQuestionsFound == "no questions found"

ProcessingFailed == "file processing failed"

UploadInit ==
    /\ converter = ConverterMounted
    /\ viewer = ViewerMounted("App")
    /\ stage = "upload"
    /\ text = <<>>
    /\ normalized = <<>>
    /\ again = <<>>
    /\ lines = <<>>
    /\ i = 0
    /\ cards = <<>>
    /\ pc = "idle"
    /\ qLines = <<>>
    /\ options = <<>>
    /\ answers = <<>>
    /\ cycles = 0

\* finally { setIsProcessing(false); }
Finally(c) == [c EXCEPT !.isProcessing = FALSE, !.at = "settled"]

\* the empty-result branch without setJsonData(null)
NoCardsResultKeepsData(c) == [c EXCEPT !.error = Some(NoQuestionsFound)]

\* if (cards.length === 0) { setError(...); setJsonData(null); }
NoCardsResult(c) == [c EXCEPT !.error = Some(NoQuestionsFound), !.jsonData = Null]

\* else { setJsonData(cards); }
CardsResult(c, cs) == [c EXCEPT !.jsonData = Some(cs)]

\* catch (err) { setError(...); setJsonData(null); }
CatchResult(c) == [c EXCEPT !.error = Some(ProcessingFailed), !.jsonData = Null]

\* a file is chosen: the handler runs up to its first await.  The input is
\* disabled while isProcessing, and without a file the handler returns.
StartUpload ==
    /\ stage = "upload"
    /\ converter.at \in {"idle", "settled"}
    /\ ~converter.isProcessing
    /\ converter' = [converter EXCEPT !.isProcessing = TRUE, !.error = Null, !.at = "reading"]
    /\ text' = <<>>
    /\ normalized' = <<>>
    /\ lines' = <<>>
    /\ i' = 0
    /\ cards' = <<>>
    /\ pc' = "idle"
    /\ UNCHANGED <<qLines, options, answers, cycles, again, stage, viewer>>

\* file.arrayBuffer() or mammoth.extractRawText rejects
ExtractFails ==
    /\ converter.at = "reading"
    /\ converter' = Finally(CatchResult(converter))
    /\ UNCHANGED parseVars
    /\ UNCHANGED <<normVars, viewer>>

\* the text is extracted: normalize, parse, set the result
Convert ==
    /\ converter.at = "reading"
    /\ \E t \in UploadTexts :
           /\ text' = t
           /\ \E n \in {normalizeMcqText(t)} :
                  /\ normalized' = n
                  /\ \E ls \in {PreparedLines(n)} :
                         /\ lines' = ls
                         /\ \E r \in {ParseFrom(ls, 0, <<>>)} :
                                /\ i' = r.i
                                /\ cards' = r.cards
                                /\ converter' =
                                       Finally(IF Len(r.cards) = 0
                                               THEN NoCardsResult(converter)
                                               ELSE CardsResult(converter, r.cards))
    /\ pc' = "done"
    /\ UNCHANGED <<qLines, options, answers, cycles, again, stage, viewer>>

UploadNext ==
    \/ StartUpload
    \/ ExtractFails
    \/ Convert

UploadSpec == UploadInit /\ [][UploadNext]_vars

\* ------------------------------------------------------------------------
\* FlashcardApp: the load of /flashcards.json, in src/App.tsx ("App") and in
\* unnamed/part_000 ("part_000")
\* ------------------------------------------------------------------------
\* most elements of the fetched array
MaxDeck == 2

\* an object of the fetched array; a key that is missing is Null, a string
\* value v is Some(v)
JsonObject(q, a, o, e) ==
    [kind |-> "object", question |-> q, answer |-> a, options |-> o, explanation |-> e]

\* the elements the fetched array is made of
JsonElements ==
    { [kind |-> "null"],
      JsonObject(Some(<<"Q">>), Some(<<"A">>), Some(<< <<"A", ".">>, <<"B", ".">> >>), Null),
      JsonObject(Some(<<" ", "Q", " ">>), Some(<<"A", " ">>), Null, Some(<<"e">>)),
      JsonObject(Some(<<" ">>), Some(<<"A">>), Null, Null),
      JsonObject(Null, Some(<<"A">>), Null, Null),
      JsonObject(Some(<<"Q">>), Some(<<>>), Null, Null),
      JsonObject(Some(<<"Q">>), Null, Null, Null) }

\* what res.json() resolves to: an array, or a value that is not an array
JsonValues ==
    { [kind |-> "object"] } \cup
    { [kind |-> "array", items |-> d] : d \in UNION { [1..n -> JsonElements] : n \in 0..MaxDeck } }

\* a card of jsonData after JSON.stringify and res.json(): the strings and
\* the array as they are, explanation: null
CardJson(c) == JsonObject(Some(c.question), Some(c.answer), Some(c.options), Null)

\* the inputs of the decks: up to MaxUploadLines lines of any kind, and a
\* question with four options followed by up to MaxTail lines
DeckInputs ==
    LineSeqs(MaxUploadLines) \cup
    { h \o t : h \in FullRecords,
               t \in UNION { [1..n -> TextRawLines] : n \in 0..MaxTail } }

\* the decks downloadJson writes: the cards parseDocxContent returns for an
\* input, when there are any
ConverterDecks ==
    { [kind |-> "array", items |-> [n \in 1..Len(cs) |-> CardJson(cs[n])]] :
      cs \in { ParseFrom([n \in 1..Len(raw) |-> PrepareLine(raw[n])], 0, <<>>).cards :
               raw \in DeckInputs } \ {<<>>} }

\* what the viewer can be given as /flashcards.json
FetchedValues == JsonValues \cup ConverterDecks

\* String(v ?? '') for a key of an element, '' for an element that is null
StringOf(x, key) ==
    IF x.kind = "null" THEN <<>>
    ELSE IF x[key] = Null THEN <<>>
    ELSE x[key][1]

\* the map of App.tsx, lines 39-44
NormalizeElement(x) ==
    [question |-> Trim(StringOf(x, "question")),
     options |-> IF x.kind = "null" THEN Null ELSE x.options,
     answer |-> Trim(StringOf(x, "answer")),
     explanation |-> IF x.kind = "null" THEN Null ELSE x.explanation]

\* a filter that also asks for an explanation
NormalizedCardsExplained(items) ==
    SelectSeq([n \in 1..Len(items) |-> NormalizeElement(items[n])],
              LAMBDA c : c.question # <<>> /\ c.answer # <<>> /\ c.explanation # Null)

\* .filter(c => c.question && c.answer) on the mapped elements
NormalizedCards(items) ==
    SelectSeq([n \in 1..Len(items) |-> NormalizeElement(items[n])],
              LAMBDA c : c.question # <<>> /\ c.answer # <<>>)

\* card.question && card.answer of part_000 on a raw element: a missing key
\* and '' are falsy
RawTruthy(x) ==
    /\ x.question # Null
    /\ x.question[1] # <<>>
    /\ x.answer # Null
    /\ x.answer[1] # <<>>

\* the messages handed to setLoadError
FetchFailed == "fetch failed"

HttpStatus == "HTTP status"

JsonFailed == "JSON parse failed"

NotAnArray == "top level is not an array"

NoValidCards == "no valid cards"

TypeErrorThrown == "TypeError"

\* catch and finally of load in App.tsx
AppCatch(v, msg) ==
    IF v.cancelled THEN [v EXCEPT !.at = "settled"]
    ELSE [v EXCEPT !.loadError = Some(msg), !.cards = <<>>, !.isLoading = FALSE,
                   !.at = "settled"]

\* catch and finally of loadCards in part_000
PartCatch(v, msg) ==
    [v EXCEPT !.loadError = Some(msg), !.isLoading = FALSE, !.at = "settled"]

Catch(v, msg) == IF v.variant = "App" THEN AppCatch(v, msg) ELSE PartCatch(v, msg)

\* load of App.tsx once res.json() has resolved to data
AppLoaded(v, data) ==
    IF data.kind # "array" THEN AppCatch(v, NotAnArray)
    ELSE IF Len(NormalizedCards(data.items)) = 0 THEN AppCatch(v, NoValidCards)
    ELSE IF v.cancelled THEN [v EXCEPT !.at = "settled"]
    ELSE [v EXCEPT !.cards = NormalizedCards(data.items), !.currentIndex = 0,
                   !.isFlipped = FALSE, !.showExplanation = FALSE,
                   !.isLoading = FALSE, !.at = "settled"]

\* loadCards of part_000 once response.json() has resolved to data
PartLoaded(v, data) ==
    IF data.kind # "array" THEN PartCatch(v, TypeErrorThrown)
    ELSE IF \E n \in 1..Len(data.items) : data.items[n].kind = "null"
         THEN PartCatch(v, TypeErrorThrown)
    ELSE [v EXCEPT !.cards = SelectSeq(data.items, RawTruthy),
                   !.isLoading = FALSE, !.at = "settled"]

\* what the component returns: the render guards
Screen(v) ==
    IF v.cancelled THEN "unmounted"
    ELSE IF v.variant = "App"
         THEN IF v.isLoading THEN "loading"
              ELSE IF v.loadError # Null THEN "error"
              ELSE IF Len(v.cards) = 0 THEN "empty"
              ELSE "cards"
    ELSE IF v.isLoading \/ v.currentIndex + 1 > Len(v.cards) THEN "loading"
    ELSE "cards"

ViewerInit ==
    /\ \E variant \in {"App", "part_000"} :
           viewer = ViewerMounted(variant)
    /\ converter = ConverterMounted
    /\ stage = "view"
    /\ text = <<>>
    /\ normalized = <<>>
    /\ again = <<>>
    /\ lines = <<>>
    /\ i = 0
    /\ cards = <<>>
    /\ pc = "idle"
    /\ qLines = <<>>
    /\ options = <<>>
    /\ answers = <<>>
    /\ cycles = 0

ViewerUnchanged ==
    /\ UNCHANGED parseVars
    /\ UNCHANGED <<normVars, converter>>

\* the effect runs: load up to its first await
StartLoad ==
    /\ stage = "view"
    /\ viewer.at = "mounted"
    /\ viewer' = IF viewer.variant = "App"
                 THEN [viewer EXCEPT !.isLoading = TRUE, !.loadError = Null, !.at = "fetching"]
                 ELSE [viewer EXCEPT !.isLoading = TRUE, !.at = "fetching"]
    /\ ViewerUnchanged

\* fetch rejects, or resolves with a status that is not ok
FetchFails ==
    /\ viewer.at = "fetching"
    /\ \E r \in {"rejected", "not ok"} :
           viewer' = Catch([viewer EXCEPT !.res = r],
                           IF r = "rejected" THEN FetchFailed ELSE HttpStatus)
    /\ ViewerUnchanged

\* fetch resolves with res.ok: load awaits res.json()
FetchOk ==
    /\ viewer.at = "fetching"
    /\ viewer' = [viewer EXCEPT !.res = "ok", !.at = "parsing"]
    /\ ViewerUnchanged

\* res.json() rejects: the body is not JSON
JsonRejects ==
    /\ viewer.at = "parsing"
    /\ viewer' = Catch([viewer EXCEPT !.data = [kind |-> "rejected"]], JsonFailed)
    /\ ViewerUnchanged

\* res.json() resolves: validation, then the state is set
JsonResolves ==
    /\ viewer.at = "parsing"
    /\ \E data \in FetchedValues :
           viewer' = IF viewer.variant = "App"
                     THEN AppLoaded([viewer EXCEPT !.data = data], data)
                     ELSE PartLoaded([viewer EXCEPT !.data = data], data)
    /\ ViewerUnchanged

\* the cleanup of the effect of App.tsx: cancelled = true
Unmount ==
    /\ viewer.variant = "App"
    /\ viewer.at \in {"fetching", "parsing"}
    /\ ~viewer.cancelled
    /\ viewer' = [viewer EXCEPT !.cancelled = TRUE]
    /\ ViewerUnchanged

\* handleNext of App.tsx
AppHandleNext(v) ==
    [v EXCEPT !.currentIndex = IF @ + 1 <= Len(v.cards) - 1 THEN @ + 1 ELSE Len(v.cards) - 1,
              !.isFlipped = FALSE, !.showExplanation = FALSE]

\* handleNext of part_000 without its test of currentIndex
PartHandleNextUnguarded(v) ==
    [v EXCEPT !.currentIndex = @ + 1, !.isFlipped = FALSE, !.showExplanation = FALSE]

\* handleNext of part_000
PartHandleNext(v) ==
    IF v.currentIndex < Len(v.cards) - 1
    THEN [v EXCEPT !.currentIndex = @ + 1, !.isFlipped = FALSE, !.showExplanation = FALSE]
    ELSE v

\* handlePrev of App.tsx
AppHandlePrev(v) ==
    [v EXCEPT !.currentIndex = Max(@ - 1, 0), !.isFlipped = FALSE, !.showExplanation = FALSE]

\* handlePrev of part_000
PartHandlePrev(v) ==
    IF v.currentIndex > 0
    THEN [v EXCEPT !.currentIndex = @ - 1, !.isFlipped = FALSE, !.showExplanation = FALSE]
    ELSE v

\* handleReset of App.tsx: the index stays
AppHandleReset(v) == [v EXCEPT !.isFlipped = FALSE, !.showExplanation = FALSE]

\* handleReset of part_000: back to the first card
PartHandleReset(v) ==
    [v EXCEPT !.currentIndex = 0, !.isFlipped = FALSE, !.showExplanation = FALSE]

\* the codes of the keys handleKeyPress tells apart, and one it ignores
KeyCodes == {"Space", "ArrowLeft", "ArrowRight", "KeyR", "KeyX"}

handleKeyPress(v, code) ==
    IF code = "Space" THEN [v EXCEPT !.isFlipped = ~@]
    ELSE IF code = "ArrowLeft"
         THEN IF v.currentIndex > 0 THEN AppHandlePrev(v) ELSE v
    ELSE IF code = "ArrowRight"
         THEN IF v.currentIndex < Len(v.cards) - 1 THEN AppHandleNext(v) ELSE v
    ELSE IF code = "KeyR" THEN AppHandleReset(v)
    ELSE v

\* clientX of a touch
TouchXs == {0, 40, 100}

minSwipeDistance == 50

\* !x for a touch coordinate: null and 0 are falsy
NoTouch(x) == x = Null \/ x = Some(0)

onTouchEnd(v) ==
    IF NoTouch(v.touchStart) \/ NoTouch(v.touchEnd) THEN v
    ELSE IF v.touchStart[1] - v.touchEnd[1] > minSwipeDistance THEN PartHandleNext(v)
    ELSE IF v.touchStart[1] - v.touchEnd[1] < 0 - minSwipeDistance THEN PartHandlePrev(v)
    ELSE v

\* the card and its buttons are rendered
CardShown == stage = "view" /\ Screen(viewer) = "cards"

\* a click on the next button, which is disabled on the last card
ClickNext ==
    /\ CardShown
    /\ viewer.currentIndex # Len(viewer.cards) - 1
    /\ viewer' = IF viewer.variant = "App" THEN AppHandleNext(viewer)
                 ELSE PartHandleNext(viewer)
    /\ ViewerUnchanged

\* a click on the previous button, which is disabled on the first card
ClickPrev ==
    /\ CardShown
    /\ viewer.currentIndex # 0
    /\ viewer' = IF viewer.variant = "App" THEN AppHandlePrev(viewer)
                 ELSE PartHandlePrev(viewer)
    /\ ViewerUnchanged

ClickReset ==
    /\ CardShown
    /\ viewer' = IF viewer.variant = "App" THEN AppHandleReset(viewer)
                 ELSE PartHandleReset(viewer)
    /\ ViewerUnchanged

\* a click on the card: handleFlip, setIsFlipped(!isFlipped) in part_000
ClickCard ==
    /\ CardShown
    /\ viewer' = [viewer EXCEPT !.isFlipped = ~@]
    /\ ViewerUnchanged

\* a click on the explanation button, rendered on the back of a card that has
\* an explanation
ClickExplanation ==
    /\ CardShown
    /\ viewer.isFlipped
    /\ viewer.cards[viewer.currentIndex + 1].explanation # Null
    /\ viewer.cards[viewer.currentIndex + 1].explanation[1] # <<>>
    /\ viewer' = [viewer EXCEPT !.showExplanation = ~@]
    /\ ViewerUnchanged

\* a keydown on window while App.tsx is mounted and its effects have run
KeyDown ==
    /\ stage = "view"
    /\ viewer.variant = "App"
    /\ viewer.at # "mounted"
    /\ ~viewer.cancelled
    /\ \E code \in KeyCodes : viewer' = handleKeyPress(viewer, code)
    /\ ViewerUnchanged

\* onTouchStart of part_000
TouchStart ==
    /\ CardShown
    /\ viewer.variant = "part_000"
    /\ \E x \in TouchXs : viewer' = [viewer EXCEPT !.touchEnd = Null, !.touchStart = Some(x)]
    /\ ViewerUnchanged

\* onTouchMove of part_000
TouchMove ==
    /\ CardShown
    /\ viewer.variant = "part_000"
    /\ \E x \in TouchXs : viewer' = [viewer EXCEPT !.touchEnd = Some(x)]
    /\ ViewerUnchanged

TouchEnd ==
    /\ CardShown
    /\ viewer.variant = "part_000"
    /\ viewer' = onTouchEnd(viewer)
    /\ ViewerUnchanged

ViewerNext ==
    \/ StartLoad
    \/ FetchFails
    \/ FetchOk
    \/ JsonRejects
    \/ JsonResolves
    \/ Unmount
    \/ ClickNext
    \/ ClickPrev
    \/ ClickReset
    \/ ClickCard
    \/ ClickExplanation
    \/ KeyDown
    \/ TouchStart
    \/ TouchMove
    \/ TouchEnd

ViewerSpec == ViewerInit /\ [][ViewerNext]_vars

TypeOK ==
    /\ i \in 0..(Len(lines) + 1)
    /\ pc \in {"idle", "loop", "done"}
    /\ cycles \in 0..Len(lines)
    /\ stage \in {"parse", "text", "normalized", "again", "upload", "view"}
    /\ converter.at \in {"idle", "reading", "settled"}
    /\ converter.isProcessing \in BOOLEAN
    /\ viewer.at \in {"mounted", "fetching", "parsing", "settled"}
    /\ viewer.isLoading \in BOOLEAN
    /\ viewer.currentIndex \in 0..Max(0, Len(viewer.cards) - 1)

\* ------------------------------------------------------------------------
\* Properties
\* ------------------------------------------------------------------------
PlainLine(l) ==
    /\ ~isNoiseLine(l)
    /\ ~isOptionLine(Trim(l))

\* C1: every cycle of the outer loop of parseDocxContent, on each of its
\* paths, leaves the cursor i strictly greater than it was when the cycle
\* started.
C1_CursorAdvances == [][InCycle => i' > i]_vars

\* a run that discarded a candidate in one cycle and emitted a card in another
C1_Witness ==
    /\ cards # <<>>
    /\ cycles > Len(cards)
    /\ i > 0

\* C2: parseDocxContent returns on every input, after at most as many cycles
\* of the outer loop as the input has lines.
C2_Terminates == <>(pc = "done") /\ [](cycles <= Len(lines))

\* a finished run over an input of nothing but option lines that needed one
\* cycle per line
C2_Witness ==
    /\ pc = "done"
    /\ Len(lines) >= 3
    /\ cycles = Len(lines)
    /\ \A n \in 1..Len(lines) : isOptionLine(lines[n])

\* C3: every emitted card has a non-empty question, a non-empty answer and
\* either no options or two to four of them.
C3_CardsValid ==
    \A n \in 1..Len(cards) :
        /\ cards[n].question # <<>>
        /\ cards[n].answer # <<>>
        /\ \/ Len(cards[n].options) = 0
           \/ Len(cards[n].options) \in 2..4

\* a card with four options whose answer was read from a further option line
C3_Witness ==
    \E n \in 1..Len(cards) :
        /\ Len(cards[n].options) = 4
        /\ cards[n].answer # Unknown

\* lines from..to of ls, trimmed
TrimmedLines(ls, from, to) == [n \in 1..(to - from + 1) |-> Trim(ls[from + n - 1])]

\* a line of question text: not noise, not an option line, not an inline answer
QuestionLine(l) == PlainLine(l) /\ extractInlineAnswer(l) = <<>>

\* lines from..to of ls are one well-formed record: nq question lines, two to
\* four option lines, and an inline answer line when na = 1
IsRecord(ls, from, to, nq, na) ==
    /\ nq >= 1
    /\ na \in {0, 1}
    /\ (to - from + 1) - nq - na \in 2..4
    /\ \A n \in from..to :
           IF n < from + nq THEN QuestionLine(ls[n])
           ELSE IF n <= to - na THEN isOptionLine(Trim(ls[n]))
           ELSE extractInlineAnswer(ls[n]) # <<>>

\* C4: of two adjacent well-formed records the second one's question is the
\* question of the second card, and the first card is made of the first
\* record's lines only.
C4_SecondQuestionKept ==
    pc = "done" =>
        \A m \in 1..(Len(lines) - 1) : \A nq1, nq2 \in 1..Len(lines) : \A na1, na2 \in {0, 1} :
            (IsRecord(lines, 1, m, nq1, na1) /\ IsRecord(lines, m + 1, Len(lines), nq2, na2)) =>
                /\ Len(cards) >= 2
                /\ cards[2].question = Join(TrimmedLines(lines, m + 1, m + nq2), <<" ">>)
                /\ cards[1].question = Join(TrimmedLines(lines, 1, nq1), <<" ">>)
                /\ cards[1].options = TrimmedLines(lines, nq1 + 1, m - na1)

\* C5: a question line, two to four option lines and an inline answer line
\* give exactly one card with those options and the inline answer's letters.
C5_InlineAnswerRecord ==
    (pc = "done" /\ IsRecord(lines, 1, Len(lines), 1, 1)) =>
        cards = << [question |-> Trim(lines[1]),
                    options |-> TrimmedLines(lines, 2, Len(lines) - 1),
                    answer |-> extractInlineAnswer(lines[Len(lines)]),
                    explanation |-> "null"] >>

\* a question line, two to four option lines, then one of them again
IsRepeatedOptionRecord(ls) ==
    /\ Len(ls) \in 4..6
    /\ IsRecord(ls, 1, Len(ls) - 1, 1, 0)
    /\ \E n \in 2..(Len(ls) - 1) : ls[n] = ls[Len(ls)]

\* C6: a question line, its option lines and a repeated option line give one
\* card with the original options and the repeated line as the answer.
C6_RepeatedOptionRecord ==
    (pc = "done" /\ IsRepeatedOptionRecord(lines)) =>
        cards = << [question |-> Trim(lines[1]),
                    options |-> TrimmedLines(lines, 2, Len(lines) - 1),
                    answer |-> Trim(lines[Len(lines)]),
                    explanation |-> "null"] >>

\* C7: question, two options, question, two options give two cards, the
\* first with answer UNKNOWN, the second with the second question and options.
C7_TwoBlocksNoAnswer ==
    (pc = "done" /\ Len(lines) = 6
        /\ IsRecord(lines, 1, 3, 1, 0) /\ IsRecord(lines, 4, 6, 1, 0)) =>
        cards = << [question |-> Trim(lines[1]),
                    options |-> TrimmedLines(lines, 2, 3),
                    answer |-> Unknown,
                    explanation |-> "null"],
                   [question |-> Trim(lines[4]),
                    options |-> TrimmedLines(lines, 5, 6),
                    answer |-> Unknown,
                    explanation |-> "null"] >>

NoOptionLines(ls) == \A n \in 1..Len(ls) : ~isOptionLine(Trim(ls[n]))

HasText(ls) == \E n \in 1..Len(ls) : ~isNoiseLine(ls[n])

\* C8: an input with question text and no option line gives no card and
\* leaves the cursor at the number of lines.
C8_NoOptionsNoCards ==
    (pc = "done" /\ NoOptionLines(lines) /\ HasText(lines)) =>
        /\ cards = <<>>
        /\ i = Len(lines)

\* a finished run over question text followed by noise
C8_Witness ==
    /\ pc = "done"
    /\ Len(lines) >= 3
    /\ NoOptionLines(lines)
    /\ QuestionLine(lines[1])
    /\ isNoiseLine(lines[Len(lines)])
    /\ qLines # <<>>

\* C9: normalizeMcqText is idempotent: applied to its own output it returns
\* that output unchanged.
C9_NormalizeIdempotent == stage = "again" => again = normalized

\* a text the first pass changed (a line break put before a marker) and the
\* second pass was run on
C9_Witness ==
    /\ stage = "again"
    /\ normalized # text
    /\ \E n \in 2..Len(normalized) :
           /\ normalized[n] \in MarkerLetter
           /\ normalized[n - 1] = "\n"
           /\ Len(normalized) > Len(text)

\* C10: a cycle that collected a non-empty question and at least two options
\* pushes a card; its answer is the trimmed answer buffer joined by line
\* breaks, and UNKNOWN exactly when the buffer is empty.
C10_LenientEmit ==
    [][(InCycle /\ QuestionText(qLines') # <<>> /\ Len(options') >= 2) =>
          /\ Len(cards') = Len(cards) + 1
          /\ SubSeq(cards', 1, Len(cards)) = cards
          /\ cards'[Len(cards')].answer =
                 (IF answers' = <<>> THEN Unknown ELSE Trim(Join(answers', <<"\n">>)))
          /\ (cards'[Len(cards')].answer = Unknown) <=> (answers' = <<>>)]_vars

\* a card pushed with the sentinel because no answer line followed
C10_Witness ==
    /\ cards # <<>>
    /\ Len(options) >= 2
    /\ answers = <<>>
    /\ cards[Len(cards)].answer = Unknown

\* line n of ls, counted from 0, is an option line
OptionAt(ls, n) == isOptionLine(Trim(At(ls, n)))

\* the option lines of ls at or after line n, counted from 0
OptionLinesFrom(ls, n) == { m \in n..(Len(ls) - 1) : OptionAt(ls, m) }

\* the cycle about to run finds no option line at or after its first
\* non-noise line
NoBoundaryCase ==
    /\ InCycle
    /\ SkipNoise(lines, i) < Len(lines)
    /\ OptionLinesFrom(lines, SkipNoise(lines, i)) = {}

\* the cycle about to run starts on an option line: its question is empty
EmptyQuestionCase ==
    /\ InCycle
    /\ SkipNoise(lines, i) < Len(lines)
    /\ OptionAt(lines, SkipNoise(lines, i))

FewOptionsCase ==
    /\ InCycle
    /\ SkipNoise(lines, i) < Len(lines)
    /\ ~OptionAt(lines, SkipNoise(lines, i))
    /\ Cardinality(OptionLinesFrom(lines, SkipNoise(lines, i))) = 1

\* C12 as stated: a candidate with fewer than two options is discarded and
\* the cursor is left one line past the candidate's start, short of the end
\* of input when lines follow.
C12_FewOptionsRestartsOneLine ==
    [][FewOptionsCase =>
          /\ cards' = cards
          /\ i' = SkipNoise(lines, i) + 1]_vars

\* C12 amended: a candidate with fewer than two options is discarded and the
\* cursor is left one past the end of input, the single option having taken
\* every later line, so no later line is scanned again.
C12_FewOptionsCursor ==
    [][FewOptionsCase =>
          /\ cards' = cards
          /\ Len(options') = 1
          /\ i' = Len(lines) + 1]_vars

\* a discarded candidate whose single option took the plain line after it
C12_Witness ==
    /\ pc = "loop"
    /\ cards = <<>>
    /\ Len(options) = 1
    /\ Len(lines) >= 3
    /\ PlainLine(lines[Len(lines)])
    /\ i = Len(lines) + 1

\* the n-th option line of ls at or after line s, both counted as the source
\* counts lines
NthOptionLine(ls, s, n) ==
    CHOOSE m \in OptionLinesFrom(ls, s) :
        Cardinality({ x \in OptionLinesFrom(ls, s) : x < m }) = n - 1

\* t starts with the characters of p
StartsWith(t, p) == Len(t) >= Len(p) /\ SubSeq(t, 1, Len(p)) = p

\* the cycle about to run has question text and then five option lines or more
FiveOptionsCase ==
    /\ InCycle
    /\ SkipNoise(lines, i) < Len(lines)
    /\ ~OptionAt(lines, SkipNoise(lines, i))
    /\ Cardinality(OptionLinesFrom(lines, SkipNoise(lines, i))) >= 5

\* C13: no card has more than four options; a cycle that meets five option
\* lines or more makes options of the first four and hands the fifth to the
\* answer loop, which makes it the first answer entry.
C13_OptionCap ==
    [][/\ \A n \in 1..Len(cards') : Len(cards'[n].options) <= 4
       /\ FiveOptionsCase =>
             /\ Len(cards') = Len(cards) + 1
             /\ Len(cards'[Len(cards')].options) = 4
             /\ \A n \in 1..4 :
                    StartsWith(cards'[Len(cards')].options[n],
                               Trim(At(lines, NthOptionLine(lines, SkipNoise(lines, i), n))))
             /\ answers' # <<>>
             /\ StartsWith(answers'[1],
                           Trim(At(lines, NthOptionLine(lines, SkipNoise(lines, i), 5))))]_vars

\* a card of four options pushed with a fifth option line as its answer
C13_Witness ==
    /\ cards # <<>>
    /\ cards[Len(cards)].options = options
    /\ Len(options) = 4
    /\ answers # <<>>
    /\ isOptionLine(answers[1])
    /\ cards[Len(cards)].answer = answers[1]

\* the trimmed non-noise lines of ls from line from up to, not including,
\* line to (both counted from 0), in order
RECURSIVE SubstantiveLines(_, _, _)
SubstantiveLines(ls, from, to) ==
    IF from >= to THEN <<>>
    ELSE IF isNoiseLine(At(ls, from)) THEN SubstantiveLines(ls, from + 1, to)
    ELSE <<Trim(At(ls, from))>> \o SubstantiveLines(ls, from + 1, to)

\* where the n-th option of the candidate starting at line s ends: the next
\* option line, or the end of input
OptionEnd(ls, s, n) ==
    IF Cardinality(OptionLinesFrom(ls, s)) > n THEN NthOptionLine(ls, s, n + 1)
    ELSE Len(ls)

InlineAnswerAt(ls, n) == extractInlineAnswer(Trim(At(ls, n))) # <<>>

\* line n of ls, counted from 0, is a plain line and the first line after it
\* that is not noise is an option line
NextQuestionAt(ls, n) ==
    /\ n < Len(ls)
    /\ ~isNoiseLine(At(ls, n))
    /\ ~OptionAt(ls, n)
    /\ \E m \in (n + 1)..(Len(ls) - 1) :
           /\ OptionAt(ls, m)
           /\ \A x \in (n + 1)..(m - 1) : isNoiseLine(At(ls, x))

\* the cycle about to run pushes a card: question text, then two option
\* lines or more
EmitCase ==
    /\ InCycle
    /\ SkipNoise(lines, i) < Len(lines)
    /\ ~OptionAt(lines, SkipNoise(lines, i))
    /\ Cardinality(OptionLinesFrom(lines, SkipNoise(lines, i))) >= 2

\* where the answer loop of that cycle starts: the fifth option line, or the
\* end of input when there are four option lines or fewer
AnswerStart ==
    IF Cardinality(OptionLinesFrom(lines, SkipNoise(lines, i))) > 4
    THEN NthOptionLine(lines, SkipNoise(lines, i), 5)
    ELSE Len(lines)

\* the lines that end the answer loop of that cycle when it reaches them
StopLines ==
    { n \in AnswerStart..(Len(lines) - 1) :
          InlineAnswerAt(lines, n) \/ NextQuestionAt(lines, n) }

\* the first of them
FirstStop == CHOOSE n \in StopLines : \A m \in StopLines : n <= m

\* the answer loop of that cycle reaches the question line of the next record
StopsAtNextQuestion ==
    /\ EmitCase
    /\ StopLines # {}
    /\ ~InlineAnswerAt(lines, FirstStop)

\* a card has just been pushed and the cursor is on the question line of the
\* next record
OnNextQuestion ==
    /\ InCycle
    /\ cards # <<>>
    /\ cards[Len(cards)].options = options
    /\ NextQuestionAt(lines, i)

\* C17: when the answer loop reaches a plain line that holds no inline answer
\* and whose next non-noise line is an option line, the card is pushed with
\* an answer made of the lines before that line only, the cursor is left on
\* that line, and the question of the next cycle is that line alone.
C17_NextQuestionNotConsumed ==
    [][/\ StopsAtNextQuestion =>
             /\ Len(cards') = Len(cards) + 1
             /\ i' = FirstStop
             /\ Join(answers', <<" ">>) =
                    Join(SubstantiveLines(lines, AnswerStart, FirstStop), <<" ">>)
             /\ cards'[Len(cards')].answer = CardAnswer(answers')
       /\ OnNextQuestion =>
             /\ qLines' = <<Trim(At(lines, i))>>
             /\ i' > i]_vars

\* two cards, the second with the line after the first one's answer as its
\* question
C17_Witness ==
    /\ Len(cards) = 2
    /\ Len(lines) >= 9
    /\ cards[1].answer = Trim(lines[6])
    /\ QuestionLine(lines[7])
    /\ qLines = <<Trim(lines[7])>>
    /\ cards[2].question = Trim(lines[7])

\* C18 as stated: after a card is pushed the cursor is at the end of input or
\* on a plain line whose next non-noise line is an option line.
C18_CursorAfterEmit ==
    [][Len(cards') = Len(cards) + 1 =>
          \/ i' = Len(lines)
          \/ NextQuestionAt(lines, i')]_vars

\* C18 amended: after a card is pushed the cursor is at the end of input, or
\* on a plain line whose next non-noise line is an option line, or on the
\* line after the inline answer that ended the answer loop.
C18_CursorAfterEmitOrInline ==
    [][Len(cards') = Len(cards) + 1 =>
          \/ i' = Len(lines)
          \/ NextQuestionAt(lines, i')
          \/ /\ i' \in 1..(Len(lines) - 1)
             /\ InlineAnswerAt(lines, i' - 1)
             /\ answers' # <<>>
             /\ answers'[Len(answers')] = extractInlineAnswer(Trim(At(lines, i' - 1)))]_vars

\* a card pushed with an inline answer, the cursor left on a line that is
\* neither the end of input nor the question line of a record
C18_Witness ==
    /\ cards # <<>>
    /\ cards[Len(cards)].options = options
    /\ i \in 1..(Len(lines) - 1)
    /\ InlineAnswerAt(lines, i - 1)
    /\ answers # <<>>
    /\ answers[Len(answers)] = extractInlineAnswer(Trim(At(lines, i - 1)))
    /\ ~NextQuestionAt(lines, i)

\* the answer loop of the cycle about to run ends at an inline answer and
\* the first line after it that is not noise is an option line
InlineThenOption ==
    /\ EmitCase
    /\ StopLines # {}
    /\ InlineAnswerAt(lines, FirstStop)
    /\ SkipNoise(lines, FirstStop + 1) < Len(lines)
    /\ OptionAt(lines, SkipNoise(lines, FirstStop + 1))

\* where the answer loop of that cycle stops reading
AnswerStop == IF StopLines = {} THEN Len(lines) ELSE FirstStop

\* C20 as stated: an option line that follows an inline answer in the answer
\* loop is appended, after a space, to the entry the inline answer made.
C20_OptionAfterInlineAppended ==
    [][InlineThenOption =>
          /\ answers' # <<>>
          /\ StartsWith(answers'[Len(answers')],
                        extractInlineAnswer(Trim(At(lines, FirstStop))) \o <<" ">>
                            \o Trim(At(lines, SkipNoise(lines, FirstStop + 1))))]_vars

\* C20 amended: an inline answer ends the answer loop, so an option line that
\* follows it is not read in that cycle: the last answer entry is the inline
\* answer alone and the cursor is left right after the inline answer line;
\* an option line the answer loop does read always makes an entry of its own.
C20_InlineEndsAnswer ==
    [][/\ InlineThenOption =>
             /\ Len(cards') = Len(cards) + 1
             /\ answers' # <<>>
             /\ answers'[Len(answers')] = extractInlineAnswer(Trim(At(lines, FirstStop)))
             /\ i' = FirstStop + 1
       /\ EmitCase =>
             Len(answers') =
                 Cardinality({ n \in AnswerStart..(AnswerStop - 1) : OptionAt(lines, n) })
                     + (IF StopLines # {} /\ InlineAnswerAt(lines, FirstStop) THEN 1 ELSE 0)]_vars

\* a card pushed with two option lines and an inline answer as its three
\* answer entries, an option line being the next line to read
C20_Witness ==
    /\ cards # <<>>
    /\ cards[Len(cards)].options = options
    /\ Len(answers) = 3
    /\ isOptionLine(answers[1])
    /\ isOptionLine(answers[2])
    /\ i \in 1..(Len(lines) - 1)
    /\ answers[3] = extractInlineAnswer(Trim(At(lines, i - 1)))
    /\ SkipNoise(lines, i) < Len(lines)
    /\ OptionAt(lines, SkipNoise(lines, i))

\* a text the first and the third replace leave alone: no letter an option
\* marker or an answer keyword could start with
UnmarkedText(t) == \A n \in 1..Len(t) : t[n] \notin LetterI \cup {Jeong, Dap}

\* ls without the empty lines that follow two empty lines
RECURSIVE CapBlankLines(_, _)
CapBlankLines(ls, n) ==
    IF n > Len(ls) THEN <<>>
    ELSE IF n >= 3 /\ ls[n] = <<>> /\ ls[n - 1] = <<>> /\ ls[n - 2] = <<>>
         THEN CapBlankLines(ls, n + 1)
         ELSE <<ls[n]>> \o CapBlankLines(ls, n + 1)

\* t without the line breaks that follow two line breaks
RECURSIVE CapLineBreaks(_, _)
CapLineBreaks(t, n) ==
    IF n > Len(t) THEN <<>>
    ELSE IF n >= 3 /\ t[n] = "\n" /\ t[n - 1] = "\n" /\ t[n - 2] = "\n"
         THEN CapLineBreaks(t, n + 1)
         ELSE <<t[n]>> \o CapLineBreaks(t, n + 1)

\* the lines of the normalized text that are empty are noise to the parser
BlankLinesAreNoise ==
    \A n \in 1..Len(PreparedLines(normalized)) :
        PreparedLines(normalized)[n] = <<>> => isNoiseLine(PreparedLines(normalized)[n])

\* a text that starts and ends with a character other than a line break
TextBetweenLines(t) == t # <<>> /\ t[1] # "\n" /\ t[Len(t)] # "\n"

\* C14 as stated: the lines of the normalized text are the lines of the raw
\* text with every run of three or more empty lines cut to two and shorter
\* runs kept, and the empty lines are noise to the parser.
C14_BlankLineRunsCapped ==
    (stage = "normalized" /\ UnmarkedText(text) /\ TextBetweenLines(text)) =>
        /\ SplitLines(normalized) = CapBlankLines(SplitLines(text), 1)
        /\ BlankLinesAreNoise

\* C14 amended: the normalized text is the raw text with every run of three
\* or more line breaks cut to two line breaks and shorter runs kept, for a
\* text without marker or answer keyword; no normalized text has three line
\* breaks in a row; the empty lines are noise to the parser.
C14_LineBreakRunsCapped ==
    stage = "normalized" =>
        /\ UnmarkedText(text) => normalized = CapLineBreaks(text, 1)
        /\ \A n \in 3..Len(normalized) :
               ~(normalized[n] = "\n" /\ normalized[n - 1] = "\n" /\ normalized[n - 2] = "\n")
        /\ BlankLinesAreNoise

\* a text of two lines with three line breaks between them, cut to two
C14_Witness ==
    /\ stage = "normalized"
    /\ UnmarkedText(text)
    /\ TextBetweenLines(text)
    /\ Len(SplitLines(text)) = 4
    /\ SplitLines(normalized) = <<SplitLines(text)[1], <<>>, SplitLines(text)[4]>>

\* C16: an upload whose conversion gives no card ends with the 'no questions
\* found' error set, jsonData null and isProcessing false; after every
\* completed upload isProcessing is false and jsonData is non-null only if
\* error is null.
C16_UploadOutcome ==
    converter.at = "settled" =>
        /\ ~converter.isProcessing
        /\ converter.jsonData # Null => converter.error = Null
        /\ (pc = "done" /\ cards = <<>>) =>
               /\ converter.error = Some(NoQuestionsFound)
               /\ converter.jsonData = Null

\* a completed upload of a text with an option line in it that gave no card
C16_Witness ==
    /\ converter.at = "settled"
    /\ pc = "done"
    /\ cards = <<>>
    /\ \E n \in 1..Len(lines) : isOptionLine(Trim(lines[n]))
    /\ converter.error = Some(NoQuestionsFound)
    /\ ~converter.isProcessing

\* an element with a question and an answer that are not empty
HasQuestionAndAnswer(x) ==
    /\ x.kind = "object"
    /\ x.question # Null
    /\ x.question[1] # <<>>
    /\ x.answer # Null
    /\ x.answer[1] # <<>>

\* the load got no deck: the fetch or the JSON parse failed, the top level
\* is not an array, or no element has a question and an answer
LoadFailed ==
    \/ viewer.res \in {"rejected", "not ok"}
    \/ viewer.data.kind \in {"rejected", "object"}
    \/ /\ viewer.data.kind = "array"
       /\ \A n \in 1..Len(viewer.data.items) : ~HasQuestionAndAnswer(viewer.data.items[n])

\* C15: a load that got no deck ends on the error screen with loadError set,
\* not on the loading screen and not on the cards; the loaded cards all have
\* a question and an answer that are not empty.
C15_LoadErrorReported ==
    (viewer.at = "settled" /\ ~viewer.cancelled) =>
        /\ LoadFailed =>
               /\ viewer.loadError # Null
               /\ Screen(viewer) = "error"
        /\ \A n \in 1..Len(viewer.cards) :
               /\ viewer.cards[n].question # <<>>
               /\ viewer.cards[n].answer # <<>>

\* a letter A-D, then '.', ')' or a full-width period, then white space
MarkerThenSpace(s) ==
    /\ Len(s) >= 3
    /\ s[1] \in MarkerLetter
    /\ s[2] \in MarkerPunct
    /\ s[3] \in WhiteSpace

\* C21: once the input is parsed, a trimmed line of it counts as an option
\* line and as an answer line exactly when it starts with a letter A-D, then
\* '.', ')' or a full-width period, then at least one white space character;
\* so every option the parser collected has white space after its marker.
C21_MarkerNeedsSpace ==
    pc = "done" =>
        /\ \A n \in 1..Len(lines) :
               /\ isOptionLine(Trim(lines[n])) <=> MarkerThenSpace(Trim(lines[n]))
               /\ isAnswerLine(Trim(lines[n])) <=> MarkerThenSpace(Trim(lines[n]))
        /\ \A c \in 1..Len(cards) : \A o \in 1..Len(cards[c].options) :
               MarkerThenSpace(cards[c].options[o])

\* an option marker of the text t at p: the letter, the punctuation, then
\* white space
SpacedMarkerAt(t, p) ==
    /\ p + 2 <= Len(t)
    /\ t[p] \in MarkerLetter
    /\ t[p + 1] \in MarkerPunct
    /\ t[p + 2] \in WhiteSpace

\* how many characters of t up to p are not white space
Rank(t, p) == Cardinality({ n \in 1..p : t[n] \notin WhiteSpace })

\* where the character of t at p is in u, a text that differs from t in its
\* white space only
PlaceIn(u, t, p) ==
    CHOOSE m \in 1..Len(u) : u[m] \notin WhiteSpace /\ Rank(u, m) = Rank(t, p)

\* C22: after normalizeMcqText every option marker (a letter A-D, then '.',
\* ')' or a full-width period, then white space) that was not at the start
\* of a line in the raw text has a line break right in front of it, also
\* when markers follow one another on one line.
C22_MarkersStartLines ==
    stage = "normalized" =>
        \A p \in 2..Len(text) :
            (SpacedMarkerAt(text, p) /\ text[p - 1] # "\n") =>
                normalized[PlaceIn(normalized, text, p) - 1] = "\n"

\* the lines ls without its noise lines
WithoutNoise(ls) == SelectSeq(ls, LAMBDA l : ~isNoiseLine(l))

\* C23: the cards parseDocxContent returns for an input are the cards it
\* returns for the same input without its noise lines (blank lines, bare
\* Roman numerals, separator runs): noise lines put in anywhere, or taken
\* out, do not change the cards.
C23_NoiseInsensitive ==
    pc = "done" => cards = ParseFrom(WithoutNoise(lines), 0, <<>>).cards

\* a record with its answer line, then the question of the next record with
\* a noise line that is not blank between it and its option: one card, and
\* the question of the next record is not part of its answer
C23_Witness ==
    /\ pc = "done"
    /\ Len(cards) = 1
    /\ Len(cards[1].options) = MaxOptions
    /\ cards[1].options[MaxOptions] = <<"A", ".", " ", "x">>
    /\ cards[1].answer = <<"A", ".", " ", "x">>
    /\ \E n \in 2..(Len(lines) - 1) :
           /\ isNoiseLine(lines[n])
           /\ lines[n] # <<>>
           /\ isOptionLine(Trim(lines[n + 1]))
           /\ ~isNoiseLine(lines[n - 1])
           /\ ~isOptionLine(Trim(lines[n - 1]))
           /\ n > MaxOptions + 2

LineEntries(ans, e) ==
    IF ans # <<>> /\ e >= 1 /\ InlineAnswerAt(lines, e - 1)
           /\ ans[Len(ans)] = extractInlineAnswer(Trim(At(lines, e - 1)))
    THEN SubSeq(ans, 1, Len(ans) - 1)
    ELSE ans

\* where the lines of those entries end
LineEntriesEnd(ans, e) == IF LineEntries(ans, e) = ans THEN e ELSE e - 1

\* C25: a cycle that pushes a card makes it of the lines from the cursor it
\* started with to the cursor it ends with, each line that is not noise used
\* once and in order: the first ones are the question lines, the next ones
\* the options, the rest the answer entries (an inline answer line gives its
\* letters); the cursor never moves back, so the lines of a card all come
\* before the lines of the next card.
C25_LinesUsedOnce ==
    [][/\ i' >= i
       /\ Len(cards') = Len(cards) + 1 =>
             /\ cards'[Len(cards')] = MakeCard(QuestionText(qLines'), options', answers')
             /\ i' > SkipNoise(lines, i)
             /\ i' <= Len(lines)
             /\ \E j1 \in SkipNoise(lines, i)..i' : \E j2 \in j1..i' :
                    /\ qLines' = SubstantiveLines(lines, SkipNoise(lines, i), j1)
                    /\ Join(options', <<" ">>) =
                           Join(SubstantiveLines(lines, j1, j2), <<" ">>)
                    /\ Join(LineEntries(answers', i'), <<" ">>) =
                           Join(SubstantiveLines(lines, j2, LineEntriesEnd(answers', i')),
                                <<" ">>)]_vars

\* two cards, the first with an answer made of the lines after its options
C25_Witness ==
    /\ pc = "done"
    /\ Len(cards) = 2
    /\ cards[1].answer # Unknown
    /\ Len(cards[2].options) >= MinOptions

\* C26: in the viewer, once a deck that is not empty is loaded, the current
\* index stays between 0 and cards.length - 1 whatever next, previous, reset,
\* flip, keyboard and swipe events follow, so cards[currentIndex] is a card.
C26_IndexInDeck ==
    viewer.cards # <<>> =>
        /\ viewer.currentIndex \in 0..(Len(viewer.cards) - 1)
        /\ Screen(viewer) = "cards"

\* the last card of a deck of two or more, reached by a swipe to the left
C26_Witness ==
    /\ viewer.variant = "part_000"
    /\ Len(viewer.cards) >= 2
    /\ viewer.currentIndex = Len(viewer.cards) - 1
    /\ viewer.touchStart # Null
    /\ viewer.touchEnd # Null
    /\ viewer.touchStart[1] - viewer.touchEnd[1] > minSwipeDistance

\* C27: a deck written by the converter loads in both viewers without a load
\* error: every card of it passes the validation of the load, so the viewer
\* holds as many cards as the deck has, in the same order and with the same
\* question, options and answer, and shows the first of them.
C27_ConverterDeckLoads ==
    (viewer.at = "settled" /\ ~viewer.cancelled /\ viewer.data \in ConverterDecks) =>
        /\ viewer.loadError = Null
        /\ Len(viewer.cards) = Len(viewer.data.items)
        /\ Screen(viewer) = "cards"
        /\ \A n \in 1..Len(viewer.cards) :
               IF viewer.variant = "App"
               THEN /\ viewer.cards[n].question = viewer.data.items[n].question[1]
                    /\ viewer.cards[n].answer = viewer.data.items[n].answer[1]
                    /\ viewer.cards[n].options = viewer.data.items[n].options
               ELSE viewer.cards[n] = viewer.data.items[n]

\* a deck of two cards of the converter, the first with an answer and the
\* second with the default, loaded by App.tsx
C27_Witness ==
    /\ viewer.variant = "App"
    /\ viewer.at = "settled"
    /\ viewer.data \in ConverterDecks
    /\ Len(viewer.cards) = 2
    /\ viewer.cards[1].answer # Unknown
    /\ viewer.cards[2].answer = Unknown

====
